---- MODULE Spec2Model ----
(***************************************************************************)
(* Repetition scheduling engine of the Ebbinghaus bot:                     *)
(*   app/utils/ebbinghaus.py            the interval calculators           *)
(*   app/services/schedule_service.py   ScheduleService                    *)
(*   app/services/material_service.py   MaterialService                    *)
(*   app/services/notification_service.py  the notification cycle          *)
(*                                                                         *)
(* Time is counted in minutes since 00:00 of day 0.  A datetime is a       *)
(* record [t, aware, off]: t is the wall-clock reading, aware says whether *)
(* it carries an offset, off is that offset in minutes.  The service       *)
(* produces naive readings with datetime.utcnow(); the server's local zone *)
(* is taken to be UTC, so date.today() is the date of the same clock.      *)
(* A nullable column is <<>> (None) or <<v>>.                              *)
(***************************************************************************)
EXTENDS Integers, Sequences, FiniteSets, TLC

VARIABLES db, now, last, call

vars == <<db, now, last, call>>

(***************************************************************************)
(* Bounds of the model.                                                    *)
(***************************************************************************)
\* successful completions already applied to the first material in Init
MaxSeed == 8
\* service calls explored after the initial state
MaxOps == 2
\* last day the clock reaches
MaxDay == 1
\* materials the store may hold
MaxMaterials == 1

Users == {1, 2}
Procs == {1, 2}
\* clock readings of a day that the model visits: 10:00 and 20:00
ClockTimes == {600, 1200}

\* the reading at which the model starts
StartTime == CHOOSE m \in ClockTimes : \A o \in ClockTimes : m <= o

None == <<>>

\* settings.default_timezone, "Asia/Yekaterinburg" = UTC+5, in minutes
default_timezone == 300

(***************************************************************************)
(* datetime helpers                                                        *)
(***************************************************************************)
Naive(t) == [t |-> t, aware |-> FALSE, off |-> 0]

Aware(t, off) == [t |-> t, aware |-> TRUE, off |-> off]

\* datetime.date(): the calendar day of the wall-clock reading
date(dt) == dt.t \div 1440

\* variant: an aware dt also gets replace(tzinfo=tz), keeping its reading
localize_keep_reading(dt, tz) == Aware(dt.t, tz)

\* dt.replace(tzinfo=tz) for a naive dt, dt.astimezone(tz) for an aware one
localize(dt, tz) ==
  IF ~dt.aware THEN Aware(dt.t, tz) ELSE Aware(dt.t - dt.off + tz, tz)

\* datetime.combine(day, time(h, m)) with tzinfo tz
combine(day, h, m, tz) == Aware(day * 1440 + h * 60 + m, tz)

(***************************************************************************)
(* app/utils/ebbinghaus.py                                                 *)
(***************************************************************************)
\* calculate_next_repetition with one of four slips, named by variant:
\*   "unclamped"    the monthly branch returns current_stage + 1
\*   "from_success" the day intervals are counted from last_success_at
\*   "strict"       the 20:00 rollover tests < in place of <=
\*   "from_created" the monthly branch always counts from created_at
calculate_next_repetition_variant(created_at, current_stage, tz, last_success_at, variant) ==
  LET c == localize(created_at, tz)
      s == IF last_success_at # None
           THEN localize(last_success_at[1], tz) ELSE c
      from == IF variant = "from_success" THEN s ELSE c
      base == IF variant = "from_created" THEN c ELSE s
      evening == combine(date(c), 20, 0, tz)
      rolls == IF variant = "strict"
               THEN evening.t < c.t ELSE evening.t <= c.t
  IN  IF current_stage = 0 THEN [due |-> Aware(c.t + 20, tz), stage |-> 1]
      ELSE IF current_stage = 1 THEN
        [due |-> IF rolls THEN Aware(evening.t + 1440, tz) ELSE evening,
         stage |-> 2]
      ELSE IF current_stage \in 2..6 THEN
        [due |-> combine(date(from) + <<1, 3, 7, 14, 30>>[current_stage - 1],
                         7, 0, tz),
         stage |-> current_stage + 1]
      ELSE [due |-> combine(date(base) + 30, 7, 0, tz),
            stage |-> IF variant = "unclamped" THEN current_stage + 1 ELSE 8]

calculate_next_repetition_unclamped(created_at, current_stage, tz, last_success_at) ==
  calculate_next_repetition_variant(created_at, current_stage, tz, last_success_at, "unclamped")

calculate_next_repetition_from_success(created_at, current_stage, tz, last_success_at) ==
  calculate_next_repetition_variant(created_at, current_stage, tz, last_success_at, "from_success")

calculate_next_repetition_strict(created_at, current_stage, tz, last_success_at) ==
  calculate_next_repetition_variant(created_at, current_stage, tz, last_success_at, "strict")

calculate_next_repetition_from_created(created_at, current_stage, tz, last_success_at) ==
  calculate_next_repetition_variant(created_at, current_stage, tz, last_success_at, "from_created")

calculate_next_repetition(created_at, current_stage, tz, last_success_at) ==
  LET c == localize(created_at, tz) IN
  IF current_stage = 0 THEN
    [due |-> Aware(c.t + 20, tz), stage |-> 1]
  ELSE IF current_stage = 1 THEN
    LET evening == combine(date(c), 20, 0, tz) IN
    [due |-> IF evening.t <= c.t THEN Aware(evening.t + 1440, tz) ELSE evening,
     stage |-> 2]
  ELSE IF current_stage = 2 THEN
    [due |-> combine(date(c) + 1, 7, 0, tz), stage |-> 3]
  ELSE IF current_stage = 3 THEN
    [due |-> combine(date(c) + 3, 7, 0, tz), stage |-> 4]
  ELSE IF current_stage = 4 THEN
    [due |-> combine(date(c) + 7, 7, 0, tz), stage |-> 5]
  ELSE IF current_stage = 5 THEN
    [due |-> combine(date(c) + 14, 7, 0, tz), stage |-> 6]
  ELSE IF current_stage = 6 THEN
    [due |-> combine(date(c) + 30, 7, 0, tz), stage |-> 7]
  ELSE
    LET base == IF last_success_at # None
                THEN localize(last_success_at[1], tz) ELSE c IN
    [due |-> combine(date(base) + 30, 7, 0, tz), stage |-> 8]

\* variant: the rollback is not held at stage 0
calculate_failed_repetition_unclamped(failed_at, current_stage, tz) ==
  LET f == localize(failed_at, tz) IN
  [due |-> combine(date(f) + 1, 7, 0, tz), stage |-> current_stage - 1]

calculate_failed_repetition(failed_at, current_stage, tz) ==
  LET f == localize(failed_at, tz) IN
  [due |-> combine(date(f) + 1, 7, 0, tz),
   stage |-> IF current_stage - 1 > 0 THEN current_stage - 1 ELSE 0]

\* variant: the monthly phase starts one stage early
get_stage_name_early_monthly(stage) ==
  IF stage >= 7 THEN "monthly"
  ELSE IF stage = 0 THEN "immediate"
  ELSE IF stage = 1 THEN "short_term"
  ELSE IF stage = 2 THEN "evening"
  ELSE IF stage = 3 THEN "day_1"
  ELSE IF stage = 4 THEN "day_3"
  ELSE IF stage = 5 THEN "day_7"
  ELSE IF stage = 6 THEN "day_14"
  ELSE "unknown"

get_stage_name(stage) ==
  IF stage >= 8 THEN "monthly"
  ELSE IF stage = 0 THEN "immediate"
  ELSE IF stage = 1 THEN "short_term"
  ELSE IF stage = 2 THEN "evening"
  ELSE IF stage = 3 THEN "day_1"
  ELSE IF stage = 4 THEN "day_3"
  ELSE IF stage = 5 THEN "day_7"
  ELSE IF stage = 6 THEN "day_14"
  ELSE IF stage = 7 THEN "day_30"
  ELSE "unknown"

IntradayTypes == {"immediate", "short_term", "evening"}

LongTermTypes == {"day_1", "day_3", "day_7", "day_14", "day_30", "monthly"}

(***************************************************************************)
(* The store (app/database/models.py).  D is a record                      *)
(*   materials  sequence of StudyMaterial rows, index = id                 *)
(*   schedule   set of RepetitionSchedule rows                             *)
(*   next_id    next value of repetition_schedule.id (serial)              *)
(*   results    RepetitionResult rows without their surrogate id, as a     *)
(*              function row -> number of such rows                        *)
(*   stats      UserStatistics rows, <<user_id, date>> -> counters; a      *)
(*              second row of one user and date, which two sessions that   *)
(*              insert at once leave behind, has <<user_id, date, 2>>      *)
(***************************************************************************)
EmptyDb ==
  [materials |-> <<>>, schedule |-> {}, next_id |-> 1,
   results |-> <<>>, stats |-> <<>>]

StudyMaterial(id, user_id, created_at) ==
  [id |-> id, user_id |-> user_id, created_at |-> created_at,
   current_stage |-> 0, last_success_at |-> None]

RepetitionSchedule(id, material_id, user_id, due, type, stage, created) ==
  [id |-> id, material_id |-> material_id, user_id |-> user_id,
   scheduled_date |-> date(due), repetition_type |-> type,
   current_stage |-> stage, scheduled_datetime |-> due.t,
   is_completed |-> FALSE, completed_at |-> None, created_at |-> created]

RepetitionResult(schedule_id, user_id, material_id, was_successful, at) ==
  [schedule_id |-> schedule_id, user_id |-> user_id,
   material_id |-> material_id, was_successful |-> was_successful,
   completed_at |-> at]

\* variant: the result record is never added to the session
AddResult_none(R, r) == R

\* session.add(result_record) followed by the flush
AddResult(R, r) ==
  IF r \in DOMAIN R THEN [R EXCEPT ![r] = @ + 1] ELSE (r :> 1) @@ R

RECURSIVE SumOver(_, _)
SumOver(f, S) ==
  IF S = {} THEN 0
  ELSE LET x == CHOOSE y \in S : TRUE IN f[x] + SumOver(f, S \ {x})

\* number of RepetitionResult rows of one schedule entry
ResultsOf(D, schedule_id) ==
  SumOver(D.results, {r \in DOMAIN D.results : r.schedule_id = schedule_id})

Incomplete(D, user_id, material_id) ==
  {e \in D.schedule : e.user_id = user_id /\ e.material_id = material_id
                      /\ ~e.is_completed}

(***************************************************************************)
(* app/services/material_service.py                                        *)
(***************************************************************************)
_update_user_statistics(D, user_id, added, succ, failed, today) ==
  LET key == <<user_id, today>> IN
  IF key \notin DOMAIN D.stats THEN
    [D EXCEPT !.stats =
       (key :> [total_materials_added |-> added,
                successful_repetitions |-> succ,
                failed_repetitions |-> failed]) @@ D.stats]
  ELSE
    [D EXCEPT !.stats[key] =
       [total_materials_added |-> @.total_materials_added + added,
        successful_repetitions |-> @.successful_repetitions + succ,
        failed_repetitions |-> @.failed_repetitions + failed]]

create_material(D, user_id, t) ==
  LET id == Len(D.materials) + 1
      D1 == [D EXCEPT !.materials = Append(@, StudyMaterial(id, user_id, t))]
  IN  _update_user_statistics(D1, user_id, 1, 0, 0, t \div 1440)

\* the row of StudyMaterial with this id, None when there is none; a session
\* that has the object loaded already (cache) keeps its loaded attributes
get_material(D, cache, material_id) ==
  IF material_id \notin DOMAIN D.materials THEN None
  ELSE IF material_id \in DOMAIN cache THEN <<cache[material_id]>>
  ELSE <<D.materials[material_id]>>

(***************************************************************************)
(* app/services/schedule_service.py                                        *)
(***************************************************************************)
\* the DELETE left out
_delete_incomplete_repetitions_none(D, user_id, material_id) == D

\* the DELETE without its is_completed == False condition
_delete_repetitions_all(D, user_id, material_id) ==
  [D EXCEPT !.schedule =
     {e \in @ : ~(e.user_id = user_id /\ e.material_id = material_id)}]

_delete_incomplete_repetitions(D, user_id, material_id) ==
  [D EXCEPT !.schedule = @ \ Incomplete(D, user_id, material_id)]

\* the schedule continued with the day_1 entry in the same call
create_initial_repetitions_with_day_1(D, material_id, user_id, material_created_at, user_timezone, t) ==
  LET D1 == _delete_incomplete_repetitions(D, user_id, material_id)
      n == D1.next_id
      r0 == calculate_next_repetition(material_created_at, 0, user_timezone, None)
      r1 == calculate_next_repetition(material_created_at, 1, user_timezone, None)
      r2 == calculate_next_repetition(material_created_at, 2, user_timezone, None)
  IN  [db |-> [D1 EXCEPT
                 !.schedule = @ \cup
                   {RepetitionSchedule(n, material_id, user_id,
                      material_created_at, "immediate", 0, t),
                    RepetitionSchedule(n + 1, material_id, user_id,
                      r0.due, "short_term", 1, t),
                    RepetitionSchedule(n + 2, material_id, user_id,
                      r1.due, "evening", 2, t),
                    RepetitionSchedule(n + 3, material_id, user_id,
                      r2.due, "day_1", 3, t)},
                 !.next_id = n + 4],
       ret |-> "list"]

create_initial_repetitions(D, material_id, user_id, material_created_at, user_timezone, t) ==
  LET D1 == _delete_incomplete_repetitions(D, user_id, material_id)
      n == D1.next_id
      r0 == calculate_next_repetition(material_created_at, 0, user_timezone, None)
      r1 == calculate_next_repetition(material_created_at, 1, user_timezone, None)
      immediate == RepetitionSchedule(n, material_id, user_id,
                     material_created_at, "immediate", 0, t)
      short_term == RepetitionSchedule(n + 1, material_id, user_id,
                     r0.due, "short_term", 1, t)
      evening == RepetitionSchedule(n + 2, material_id, user_id,
                     r1.due, "evening", 2, t)
  IN  [db |-> [D1 EXCEPT !.schedule = @ \cup {immediate, short_term, evening},
                         !.next_id = n + 3],
       ret |-> "list"]

create_full_schedule(D, material_id, user_id, start_datetime, t) ==
  IF get_material(D, <<>>, material_id) = None
  THEN [db |-> D, ret |-> "ValueError"]
  ELSE create_initial_repetitions(D, material_id, user_id, start_datetime,
                                  default_timezone, t)

\* attributes the flush writes back: only those changed since they were loaded
write_material(D, mat, stage, last_success_at) ==
  [D EXCEPT !.materials[mat.id] =
     [@ EXCEPT !.current_stage =
                  IF stage # mat.current_stage THEN stage ELSE @,
               !.last_success_at =
                  IF last_success_at # mat.last_success_at
                  THEN last_success_at ELSE @]]

\* variant: the new entry is named after the stage before the rollback
mark_failed_stale_name(D, cache, user_id, material_id, failed_at, t) ==
  LET m == get_material(D, cache, material_id) IN
  IF m = None THEN [db |-> D, ret |-> "False"]
  ELSE
    LET material == m[1]
        r == calculate_failed_repetition(failed_at, material.current_stage,
                                         default_timezone)
        D1 == _delete_incomplete_repetitions(D, user_id, material_id)
        new_schedule == RepetitionSchedule(D1.next_id, material_id, user_id,
                          r.due, get_stage_name(material.current_stage),
                          r.stage, t)
        D2 == [D1 EXCEPT !.schedule = @ \cup {new_schedule},
                         !.next_id = @ + 1]
        D3 == write_material(D2, material, r.stage, material.last_success_at)
    IN  [db |-> _update_user_statistics(D3, user_id, 0, 0, 1, t \div 1440),
         ret |-> "True"]

mark_failed(D, cache, user_id, material_id, failed_at, t) ==
  LET m == get_material(D, cache, material_id) IN
  IF m = None THEN [db |-> D, ret |-> "False"]
  ELSE
    LET material == m[1]
        r == calculate_failed_repetition(failed_at, material.current_stage,
                                         default_timezone)
        D1 == _delete_incomplete_repetitions(D, user_id, material_id)
        new_schedule == RepetitionSchedule(D1.next_id, material_id, user_id,
                          r.due, get_stage_name(r.stage), r.stage, t)
        D2 == [D1 EXCEPT !.schedule = @ \cup {new_schedule},
                         !.next_id = @ + 1]
        D3 == write_material(D2, material, r.stage, material.last_success_at)
    IN  [db |-> _update_user_statistics(D3, user_id, 0, 0, 1, t \div 1440),
         ret |-> "True"]

_create_next_repetition_on_success(D, cache, current_schedule, t) ==
  LET m == get_material(D, cache, current_schedule.material_id) IN
  IF m = None THEN [db |-> D, ret |-> "None"]
  ELSE
    LET material == m[1]
        new_stage == current_schedule.current_stage + 1
        r == calculate_next_repetition(Naive(material.created_at),
               current_schedule.current_stage, default_timezone, <<Naive(t)>>)
        D1 == write_material(D, material, new_stage, <<t>>)
        D2 == _delete_incomplete_repetitions(D1, current_schedule.user_id,
                                             current_schedule.material_id)
        next_schedule == RepetitionSchedule(D2.next_id,
                           current_schedule.material_id,
                           current_schedule.user_id, r.due,
                           get_stage_name(r.stage), r.stage, t)
    IN  [db |-> [D2 EXCEPT !.schedule = @ \cup {next_schedule},
                           !.next_id = @ + 1],
         ret |-> "entry"]

_create_next_repetition_on_failure(D, cache, current_schedule, t) ==
  mark_failed(D, cache, current_schedule.user_id,
              current_schedule.material_id,
              Naive(current_schedule.completed_at[1]), t)

(***************************************************************************)
(* complete_repetition in its three database steps: the SELECT, the commit *)
(* of the completion (made inside _update_user_statistics), the follow-up. *)
(***************************************************************************)
\* the SELECT without its is_completed == False condition
select_schedule_any(D, schedule_id, user_id) ==
  {e \in D.schedule : e.id = schedule_id /\ e.user_id = user_id}

\* lines 266-283: the rows the SELECT returns (the id is the primary key)
select_schedule(D, schedule_id, user_id) ==
  {e \in D.schedule : e.id = schedule_id /\ e.user_id = user_id
                      /\ ~e.is_completed}

\* selectinload(RepetitionSchedule.material): the session's loaded material
loaded_material(D, schedule) ==
  (schedule.material_id :> D.materials[schedule.material_id])

\* lines 285-305: UPDATE of the row by primary key, INSERT of the result,
\* statistics, commit.  A row deleted meanwhile makes the flush raise.
complete_commit(D, schedule, user_id, was_successful, t) ==
  IF ~\E e \in D.schedule : e.id = schedule.id
  THEN [db |-> D, ret |-> "StaleDataError", schedule |-> schedule]
  ELSE
    LET D1 == [D EXCEPT
                 !.schedule = {IF e.id = schedule.id
                               THEN [e EXCEPT !.is_completed = TRUE,
                                              !.completed_at = <<t>>]
                               ELSE e : e \in @},
                 !.results = AddResult(@, RepetitionResult(schedule.id,
                                user_id, schedule.material_id,
                                was_successful, t))]
        D2 == IF was_successful
              THEN _update_user_statistics(D1, user_id, 0, 1, 0, t \div 1440)
              ELSE _update_user_statistics(D1, user_id, 0, 0, 1, t \div 1440)
    IN  [db |-> D2, ret |-> "committed",
         schedule |-> [schedule EXCEPT !.is_completed = TRUE,
                                       !.completed_at = <<t>>]]

\* the two branches taken the wrong way round
complete_followup_swapped(D, cache, schedule, was_successful, t) ==
  IF ~was_successful
  THEN _create_next_repetition_on_success(D, cache, schedule, t).db
  ELSE _create_next_repetition_on_failure(D, cache, schedule, t).db

\* lines 307-311
complete_followup(D, cache, schedule, was_successful, t) ==
  IF was_successful
  THEN _create_next_repetition_on_success(D, cache, schedule, t).db
  ELSE _create_next_repetition_on_failure(D, cache, schedule, t).db

\* the whole call, run alone
complete_repetition(D, schedule_id, user_id, was_successful, t) ==
  LET found == select_schedule(D, schedule_id, user_id) IN
  IF found = {} THEN [db |-> D, ret |-> "False"]
  ELSE
    LET schedule == CHOOSE e \in found : TRUE
        cache == loaded_material(D, schedule)
        c == complete_commit(D, schedule, user_id, was_successful, t)
    IN  [db |-> complete_followup(c.db, cache, c.schedule, was_successful, t),
         ret |-> "True"]

(***************************************************************************)
(* The sweep and the queries                                               *)
(***************************************************************************)
\* scheduled_date <= today in place of scheduled_date < today
expired_repetitions_today(D, today) ==
  {e \in D.schedule : e.scheduled_date <= today /\ ~e.is_completed
                      /\ e.repetition_type \in IntradayTypes}

\* variant: the SELECT of the sweep has no is_completed filter
expired_repetitions_any(D, today) ==
  {e \in D.schedule : e.scheduled_date < today
                      /\ e.repetition_type \in IntradayTypes}

expired_repetitions(D, today) ==
  {e \in D.schedule : e.scheduled_date < today /\ ~e.is_completed
                      /\ e.repetition_type \in IntradayTypes}

\* variant: the loop stamps completed_at and writes the result but leaves
\* is_completed False
RECURSIVE auto_complete_loop_unmarked(_, _, _)
auto_complete_loop_unmarked(D, S, t) ==
  IF S = {} THEN D
  ELSE
    LET repetition == CHOOSE e \in S : TRUE
        D1 == [D EXCEPT
                 !.schedule = {IF e.id = repetition.id
                               THEN [e EXCEPT !.completed_at = <<t>>]
                               ELSE e : e \in @},
                 !.results = AddResult(@, RepetitionResult(repetition.id,
                                repetition.user_id, repetition.material_id,
                                FALSE, t))]
        D2 == _update_user_statistics(D1, repetition.user_id, 0, 0, 1,
                                      t \div 1440)
    IN  auto_complete_loop_unmarked(D2, S \ {repetition}, t)

RECURSIVE auto_complete_loop(_, _, _)
auto_complete_loop(D, S, t) ==
  IF S = {} THEN D
  ELSE
    LET repetition == CHOOSE e \in S : TRUE
        D1 == [D EXCEPT
                 !.schedule = {IF e.id = repetition.id
                               THEN [e EXCEPT !.is_completed = TRUE,
                                              !.completed_at = <<t>>]
                               ELSE e : e \in @},
                 !.results = AddResult(@, RepetitionResult(repetition.id,
                                repetition.user_id, repetition.material_id,
                                FALSE, t))]
        D2 == _update_user_statistics(D1, repetition.user_id, 0, 0, 1,
                                      t \div 1440)
    IN  auto_complete_loop(D2, S \ {repetition}, t)

auto_complete_expired_intraday_repetitions(D, t) ==
  LET expired == expired_repetitions(D, t \div 1440) IN
  [db |-> auto_complete_loop(D, expired, t), ret |-> Cardinality(expired)]

\* ORDER BY scheduled_date, current_stage, created_at
OrderedBefore(a, b) ==
  \/ a.scheduled_date < b.scheduled_date
  \/ /\ a.scheduled_date = b.scheduled_date
     /\ \/ a.current_stage < b.current_stage
        \/ /\ a.current_stage = b.current_stage
           /\ a.created_at < b.created_at

\* every order the database may return the rows in (ties are not ordered)
RECURSIVE OrderBy(_)
OrderBy(S) ==
  IF S = {} THEN {<<>>}
  ELSE UNION {{<<e>> \o rest : rest \in OrderBy(S \ {e})} :
              e \in {x \in S : \A y \in S : ~OrderedBefore(y, x)}}

\* the loop over seen_materials left out: every row is kept
unique_repetitions_all(all) == all

\* lines 236-247: the first row of each material
RECURSIVE unique_repetitions(_)
unique_repetitions(all) ==
  IF all = <<>> THEN <<>>
  ELSE LET kept == unique_repetitions(SubSeq(all, 1, Len(all) - 1))
           rep == all[Len(all)]
       IN  IF \E i \in 1..Len(kept) : kept[i].material_id = rep.material_id
           THEN kept ELSE Append(kept, rep)

\* long-horizon rows selected on the target date only
get_due_repetitions_same_day(D, user_id, target_date) ==
  LET rows == {e \in D.schedule :
                 /\ ~e.is_completed
                 /\ e.scheduled_date = target_date
                 /\ (user_id # 0 => e.user_id = user_id)}
  IN  {unique_repetitions(all) : all \in OrderBy(rows)}

\* intraday rows selected with scheduled_date <= target_date
get_due_repetitions_leaky(D, user_id, target_date) ==
  LET rows == {e \in D.schedule :
                 /\ ~e.is_completed
                 /\ e.scheduled_date <= target_date
                 /\ (user_id # 0 => e.user_id = user_id)}
  IN  {unique_repetitions(all) : all \in OrderBy(rows)}

\* user_id 0 stands for None; the result is the set of lists the call may return
get_due_repetitions(D, user_id, target_date) ==
  LET rows == {e \in D.schedule :
                 /\ ~e.is_completed
                 /\ \/ /\ e.repetition_type \in IntradayTypes
                       /\ e.scheduled_date = target_date
                    \/ /\ e.repetition_type \in LongTermTypes
                       /\ e.scheduled_date <= target_date
                 /\ (user_id # 0 => e.user_id = user_id)}
  IN  {unique_repetitions(all) : all \in OrderBy(rows)}

\* app/services/notification_service.py, lines 21-58; every user is active
get_users_for_notification(D, target_date, t) ==
  LET swept == auto_complete_expired_intraday_repetitions(D, t) IN
  [db |-> swept.db, ret |-> get_due_repetitions(swept.db, 0, target_date)]

(***************************************************************************)
(* Sequential specification: every service call runs alone, as one step.   *)
(* last records the latest call, its arguments and what it returned.       *)
(***************************************************************************)
NoCall ==
  [seq |-> 0, op |-> "none", ret |-> "none", schedule_id |-> 0,
   user_id |-> 0, material_id |-> 0, was_successful |-> FALSE,
   count |-> 0, due |-> <<>>]

Idle ==
  [pc |-> "idle", schedule_id |-> 0, user_id |-> 0, was_successful |-> FALSE,
   schedule |-> None, cache |-> <<>>, ret |-> "none"]

\* the store after user 1 added a material at instant t and then completed
\* its lowest pending entry successfully k times in a row
RECURSIVE Seeded(_, _)
Seeded(k, t) ==
  IF k = 0
  THEN create_full_schedule(create_material(EmptyDb, 1, t), 1, 1, Naive(t), t).db
  ELSE LET D == Seeded(k - 1, t)
           pending == Incomplete(D, 1, 1)
           first == CHOOSE e \in pending :
                      \A o \in pending : e.current_stage <= o.current_stage
       IN  complete_repetition(D, first.id, 1, TRUE, t).db

Init ==
  /\ now = StartTime
  /\ db \in {EmptyDb} \cup {Seeded(k, now) : k \in 0..MaxSeed}
  /\ last = NoCall
  /\ call = [p \in Procs |-> Idle]

Called(op, ret) ==
  [NoCall EXCEPT !.seq = last.seq + 1, !.op = op, !.ret = ret]

CreateMaterial(u) ==
  /\ last.seq < MaxOps
  /\ Len(db.materials) < MaxMaterials
  /\ db' = create_material(db, u, now)
  /\ last' = [Called("create_material", "material") EXCEPT !.user_id = u]
  /\ UNCHANGED <<now, call>>

CreateFullSchedule(m, u) ==
  /\ last.seq < MaxOps
  /\ LET r == create_full_schedule(db, m, u, Naive(now), now) IN
       /\ db' = r.db
       /\ last' = [Called("create_full_schedule", r.ret)
                     EXCEPT !.user_id = u, !.material_id = m]
  /\ UNCHANGED <<now, call>>

CompleteRepetition(id, u, ok) ==
  /\ last.seq < MaxOps
  /\ LET r == complete_repetition(db, id, u, ok, now) IN
       /\ db' = r.db
       /\ last' = [Called("complete_repetition", r.ret)
                     EXCEPT !.schedule_id = id, !.user_id = u,
                            !.was_successful = ok]
  /\ UNCHANGED <<now, call>>

MarkFailed(u, m) ==
  /\ last.seq < MaxOps
  /\ LET r == mark_failed(db, <<>>, u, m, Naive(now), now) IN
       /\ db' = r.db
       /\ last' = [Called("mark_failed", r.ret)
                     EXCEPT !.user_id = u, !.material_id = m]
  /\ UNCHANGED <<now, call>>

Sweep ==
  /\ last.seq < MaxOps
  /\ LET r == auto_complete_expired_intraday_repetitions(db, now) IN
       /\ db' = r.db
       /\ last' = [Called("auto_complete_expired_intraday_repetitions", "count")
                     EXCEPT !.count = r.ret]
  /\ UNCHANGED <<now, call>>

NotificationCycle ==
  /\ last.seq < MaxOps
  /\ LET r == get_users_for_notification(db, now \div 1440, now) IN
       /\ db' = r.db
       /\ \E due \in r.ret :
            last' = [Called("get_users_for_notification", "list")
                       EXCEPT !.due = [i \in 1..Len(due) |-> due[i].id]]
  /\ UNCHANGED <<now, call>>

\* the clock moves on to the next reading the model visits
Tick ==
  /\ \E t \in {d * 1440 + m : d \in 0..MaxDay, m \in ClockTimes} :
       /\ t > now
       /\ \A o \in {d * 1440 + m : d \in 0..MaxDay, m \in ClockTimes} :
            o > now => t <= o
       /\ now' = t
  /\ UNCHANGED <<db, last, call>>

\* entry ids a caller is tried with: every pending entry, the newest completed
\* one, and one id that has no row
CandidateIds(D) ==
  LET done == {e.id : e \in {x \in D.schedule : x.is_completed}} IN
  {e.id : e \in {x \in D.schedule : ~x.is_completed}}
    \cup {i \in done : \A j \in done : j <= i}
    \cup {D.next_id}

Next ==
  \/ \E u \in Users : CreateMaterial(u)
  \/ \E m \in 1..Len(db.materials) + 1, u \in Users : CreateFullSchedule(m, u)
  \/ \E id \in CandidateIds(db), u \in Users, ok \in BOOLEAN :
       CompleteRepetition(id, u, ok)
  \/ \E u \in Users, m \in 1..Len(db.materials) + 1 : MarkFailed(u, m)
  \/ Sweep
  \/ NotificationCycle
  \/ Tick

Spec == Init /\ [][Next]_vars

(***************************************************************************)
(* Concurrent specification: two callers of complete_repetition, each in   *)
(* its own session, whose three database steps interleave.  A caller may   *)
(* be interrupted after the commit of the completion.                      *)
(***************************************************************************)
Select(p, id, u, ok) ==
  /\ call[p].pc = "idle"
  /\ LET found == select_schedule(db, id, u) IN
       IF found = {}
       THEN call' = [call EXCEPT ![p] =
                       [Idle EXCEPT !.pc = "done", !.schedule_id = id,
                                    !.user_id = u, !.was_successful = ok,
                                    !.ret = "False"]]
       ELSE LET schedule == CHOOSE e \in found : TRUE IN
            call' = [call EXCEPT ![p] =
                       [pc |-> "selected", schedule_id |-> id, user_id |-> u,
                        was_successful |-> ok, schedule |-> <<schedule>>,
                        cache |-> loaded_material(db, schedule),
                        ret |-> "none"]]
  /\ UNCHANGED <<db, now, last>>

Commit(p) ==
  /\ call[p].pc = "selected"
  /\ LET c == call[p]
         r == complete_commit(db, c.schedule[1], c.user_id, c.was_successful, now)
     IN  /\ db' = r.db
         /\ call' = [call EXCEPT ![p] =
                       IF r.ret = "StaleDataError"
                       THEN [c EXCEPT !.pc = "done", !.ret = "StaleDataError"]
                       ELSE [c EXCEPT !.pc = "committed",
                                      !.schedule = <<r.schedule>>]]
  /\ UNCHANGED <<now, last>>

FollowUp(p) ==
  /\ call[p].pc = "committed"
  /\ LET c == call[p] IN
       db' = complete_followup(db, c.cache, c.schedule[1], c.was_successful, now)
  /\ call' = [call EXCEPT ![p].pc = "done", ![p].ret = "True"]
  /\ UNCHANGED <<now, last>>

Interrupt(p) ==
  /\ call[p].pc = "committed"
  /\ call' = [call EXCEPT ![p].pc = "interrupted"]
  /\ UNCHANGED <<db, now, last>>

NextConc ==
  \/ \E p \in Procs, id \in CandidateIds(db), u \in Users, ok \in BOOLEAN :
       Select(p, id, u, ok)
  \/ \E p \in Procs : Commit(p)
  \/ \E p \in Procs : FollowUp(p)
  \/ \E p \in Procs : Interrupt(p)

SpecConc == Init /\ [][NextConc]_vars

(***************************************************************************)
(* Query specification: stores holding two materials at every pair of      *)
(* stages, the clock, the notification cycle, and the two read-only        *)
(* queries get_due_repetitions and get_overdue_repetitions.                *)
(***************************************************************************)
\* last day the clock of the query specification reaches
MaxQueryDay == 3

\* scheduled_date <= today in place of scheduled_date <= yesterday
get_overdue_repetitions_today(D, user_id, today) ==
  {e \in D.schedule :
     /\ e.scheduled_date <= today
     /\ ~e.is_completed
     /\ e.repetition_type \in LongTermTypes
     /\ (user_id # 0 => e.user_id = user_id)}

\* lines 598-627; user_id 0 stands for None; the rows come in no stated order
get_overdue_repetitions(D, user_id, today) ==
  {e \in D.schedule :
     /\ e.scheduled_date <= today - 1
     /\ ~e.is_completed
     /\ e.repetition_type \in LongTermTypes
     /\ (user_id # 0 => e.user_id = user_id)}

\* the store D after user u completed the lowest pending entry of material m
\* successfully k times in a row at instant t
RECURSIVE SeededMore(_, _, _, _, _)
SeededMore(D, u, m, k, t) ==
  IF k = 0 THEN D
  ELSE LET D1 == SeededMore(D, u, m, k - 1, t)
           pending == Incomplete(D1, u, m)
           first == CHOOSE e \in pending :
                      \A o \in pending : e.current_stage <= o.current_stage
       IN  complete_repetition(D1, first.id, u, TRUE, t).db

\* user 1 holds material 1 after k1 completions, user u material 2 after k2
SeededTwo(k1, u, k2, t) ==
  LET D1 == create_material(Seeded(k1, t), u, t)
      D2 == create_full_schedule(D1, 2, u, Naive(t), t).db
  IN  SeededMore(D2, u, 2, k2, t)

InitQuery ==
  /\ now = StartTime
  /\ db \in {SeededTwo(k1, 2, k2, now) : k1 \in 0..MaxSeed, k2 \in 0..MaxSeed}
  /\ last = NoCall
  /\ call = [p \in Procs |-> Idle]

\* the dates a query is tried with: today, and the day before, the day of and
\* the day after every pending entry
QueryDates(D) ==
  {now \div 1440}
    \cup {e.scheduled_date + d : e \in {x \in D.schedule : ~x.is_completed},
                                 d \in {-1, 0, 1}}

\* a query leaves the store alone; last shows its arguments and its result
GetDueRepetitions(u, target_date) ==
  /\ \E due \in get_due_repetitions(db, u, target_date) :
       last' = [target_date |-> target_date]
                 @@ [NoCall EXCEPT !.seq = last.seq,
                                   !.op = "get_due_repetitions",
                                   !.ret = "list", !.user_id = u,
                                   !.due = [i \in 1..Len(due) |-> due[i].id]]
  /\ UNCHANGED <<db, now, call>>

GetOverdueRepetitions(u) ==
  /\ last' = [today |-> now \div 1440,
              overdue |-> {e.id : e \in
                             get_overdue_repetitions(db, u, now \div 1440)}]
               @@ [NoCall EXCEPT !.seq = last.seq,
                                 !.op = "get_overdue_repetitions",
                                 !.ret = "list", !.user_id = u]
  /\ UNCHANGED <<db, now, call>>

\* the clock of the query specification moves on to its next reading
QueryTick ==
  /\ \E t \in {d * 1440 + m : d \in 0..MaxQueryDay, m \in ClockTimes} :
       /\ t > now
       /\ \A o \in {d * 1440 + m : d \in 0..MaxQueryDay, m \in ClockTimes} :
            o > now => t <= o
       /\ now' = t
  /\ UNCHANGED <<db, last, call>>

NextQuery ==
  \/ \E u \in {0} \cup Users, d \in QueryDates(db) : GetDueRepetitions(u, d)
  \/ \E u \in {0} \cup Users : GetOverdueRepetitions(u)
  \/ NotificationCycle
  \/ QueryTick

SpecQuery == InitQuery /\ [][NextQuery]_vars

(***************************************************************************)
(* Parallel specification: two callers of complete_repetition, each in its *)
(* own session, caller p on a pending entry of material p, on the day the  *)
(* store was filled or on the day after.  Material 2 belongs to user 1 or  *)
(* to user 2.  The database steps of the two calls interleave: the SELECT  *)
(* of the entry, the SELECT of the statistics row, the commit and the      *)
(* follow-up.  last keeps the store the two calls started from.            *)
(***************************************************************************)
\* the UserStatistics rows of one user and day
StatsRowsOf(D, user_id, today) ==
  {k \in DOMAIN D.stats : k[1] = user_id /\ k[2] = today}

InitPar ==
  /\ now \in {StartTime, StartTime + 1440}
  /\ db \in {SeededTwo(k1, u, k2, StartTime) :
               k1 \in 0..MaxSeed, u \in Users, k2 \in 0..MaxSeed}
  /\ last = [db0 |-> db] @@ NoCall
  /\ call = [p \in Procs |-> Idle]

\* _update_user_statistics, lines 207-217: the session reads the statistics
\* row of the day; scalar_one_or_none raises when there is more than one
ReadStatistics(p) ==
  /\ call[p].pc = "selected"
  /\ LET c == call[p]
         rows == StatsRowsOf(db, c.user_id, now \div 1440)
     IN  call' = [call EXCEPT ![p] =
                    IF Cardinality(rows) > 1
                    THEN [c EXCEPT !.pc = "done",
                                   !.ret = "MultipleResultsFound"]
                    ELSE [stats |-> IF rows = {} THEN None
                                    ELSE <<db.stats[<<c.user_id,
                                                      now \div 1440>>]>>]
                           @@ [c EXCEPT !.pc = "stats_read"]]
  /\ UNCHANGED <<db, now, last>>

\* _update_user_statistics, lines 219-237, and the commit: the completion,
\* the result and the statistics are written.  A session that saw no row
\* inserts one, next to a row another session has inserted meantime (no
\* unique constraint on user_id and date); a session that saw a row writes
\* the counters it computed from the values it loaded
CommitCompletion(p) ==
  /\ call[p].pc = "stats_read"
  /\ LET c == call[p]
         key == <<c.user_id, now \div 1440>>
         r == complete_commit(db, c.schedule[1], c.user_id, c.was_successful,
                              now)
         succ == IF c.was_successful THEN 1 ELSE 0
         stats ==
           IF c.stats = None
           THEN ((IF key \in DOMAIN db.stats
                  THEN <<c.user_id, now \div 1440, 2>> ELSE key)
                   :> [total_materials_added |-> 0,
                       successful_repetitions |-> succ,
                       failed_repetitions |-> 1 - succ]) @@ db.stats
           ELSE (key :> [c.stats[1] EXCEPT
                           !.successful_repetitions = @ + succ,
                           !.failed_repetitions = @ + 1 - succ]) @@ db.stats
     IN  IF r.ret = "StaleDataError"
         THEN /\ db' = db
              /\ call' = [call EXCEPT ![p] =
                            [c EXCEPT !.pc = "done",
                                      !.ret = "StaleDataError"]]
         ELSE /\ db' = [r.db EXCEPT !.stats = stats]
              /\ call' = [call EXCEPT ![p] =
                            [c EXCEPT !.pc = "committed",
                                      !.schedule = <<r.schedule>>]]
  /\ UNCHANGED <<now, last>>

\* lines 307-313: the follow-up.  On the failure path mark_failed calls
\* _update_user_statistics again (line 378), whose SELECT raises when the
\* day has two rows: the exception leaves complete_repetition and the
\* uncommitted delete and insert of mark_failed are rolled back
FollowUpPar(p) ==
  /\ call[p].pc = "committed"
  /\ LET c == call[p] IN
       IF /\ ~c.was_successful
          /\ Cardinality(StatsRowsOf(db, c.user_id, now \div 1440)) > 1
       THEN /\ db' = db
            /\ call' = [call EXCEPT ![p] =
                          [c EXCEPT !.pc = "done",
                                    !.ret = "MultipleResultsFound"]]
       ELSE /\ db' = complete_followup(db, c.cache, c.schedule[1],
                                       c.was_successful, now)
            /\ call' = [call EXCEPT ![p] =
                          [c EXCEPT !.pc = "done", !.ret = "True"]]
  /\ UNCHANGED <<now, last>>

NextPar ==
  \/ \E p \in Procs, ok \in BOOLEAN :
       \E e \in {x \in db.schedule : x.material_id = p /\ ~x.is_completed} :
         Select(p, e.id, db.materials[p].user_id, ok)
  \/ \E p \in Procs : ReadStatistics(p)
  \/ \E p \in Procs : CommitCompletion(p)
  \/ \E p \in Procs : FollowUpPar(p)

SpecPar == InitPar /\ [][NextPar]_vars

(***************************************************************************)
(* Chain specification: a learner adds one material and then, again and    *)
(* again, asks get_due_repetitions for a date and completes the entry it   *)
(* returns successfully, while the clock moves on.  last.seq counts the    *)
(* completions.                                                            *)
(***************************************************************************)
\* successful completions of one chain
MaxSuccesses == 10

InitChain ==
  /\ now \in ClockTimes
  /\ db = create_full_schedule(create_material(EmptyDb, 1, now), 1, 1,
                               Naive(now), now).db
  /\ last = NoCall
  /\ call = [p \in Procs |-> Idle]

\* the learner completes what get_due_repetitions(user, target_date) returns
CompleteDue(u, target_date) ==
  /\ last.seq < MaxSuccesses
  /\ \E due \in get_due_repetitions(db, u, target_date) :
       /\ due # <<>>
       /\ LET r == complete_repetition(db, due[1].id, u, TRUE, now) IN
            /\ db' = r.db
            /\ last' = [Called("complete_repetition", r.ret)
                          EXCEPT !.schedule_id = due[1].id, !.user_id = u,
                                 !.was_successful = TRUE]
  /\ UNCHANGED <<now, call>>

NextChain ==
  \/ \E d \in QueryDates(db) : CompleteDue(1, d)
  \/ Tick

SpecChain == InitChain /\ [][NextChain]_vars

(***************************************************************************)
(* Reminder specification: the learner answers an intraday reminder; the   *)
(* bot's handler looks the entry up and completes it.  A callback string   *)
(* is the sequence of its characters' runs between underscores.            *)
(***************************************************************************)
\* the kinds _schedule_delayed_reminder sends reminders for
ReminderTypes == {"short_term", "evening"}

\* f"reminder_{success|failed}_{reminder_type}".split("_")
callback_parts(result, reminder_type) ==
  <<"reminder", IF result THEN "success" ELSE "failed">>
    \o (IF reminder_type = "short_term" THEN <<"short", "term">>
        ELSE <<reminder_type>>)

\* app/bot.py, lines 518-548: the first entry of today's due list whose
\* repetition_type equals parts[2] is completed; one outcome for each order
\* the due query may return
_handle_reminder_response(D, user_id, parts, t) ==
  IF Len(parts) < 3 THEN {D}
  ELSE
    LET result == parts[2] = "success"
        reminder_type == parts[3]
    IN  {LET hits == {i \in 1..Len(today_repetitions) :
                        today_repetitions[i].repetition_type = reminder_type}
         IN  IF hits = {} THEN D
             ELSE LET i == CHOOSE j \in hits : \A k \in hits : j <= k IN
                  complete_repetition(D, today_repetitions[i].id, user_id,
                                      result, t).db :
         today_repetitions \in get_due_repetitions(D, user_id, t \div 1440)}

\* the learner presses a button of a reminder of one kind
ReminderResponse(u, result, reminder_type) ==
  /\ last.seq < MaxOps
  /\ db' \in _handle_reminder_response(db, u,
               callback_parts(result, reminder_type), now)
  /\ last' = [reminder_type |-> reminder_type]
               @@ [Called("_handle_reminder_response", "None")
                     EXCEPT !.user_id = u, !.was_successful = result]
  /\ UNCHANGED <<now, call>>

NextReminder ==
  \/ \E u \in Users, result \in BOOLEAN, reminder_type \in ReminderTypes :
       ReminderResponse(u, result, reminder_type)
  \/ Tick

SpecReminder == Init /\ [][NextReminder]_vars

(***************************************************************************)
(* Sweep specification: the sweep runs again and again between completions *)
(* and clock readings; last keeps the date of the run and the call before. *)
(***************************************************************************)
\* one run of the sweep on date.today()
AutoCompleteExpired ==
  /\ last.seq < MaxOps
  /\ LET r == auto_complete_expired_intraday_repetitions(db, now) IN
       /\ db' = r.db
       /\ last' = [today |-> now \div 1440, previous |-> last]
                    @@ [Called("auto_complete_expired_intraday_repetitions",
                               "count")
                          EXCEPT !.count = r.ret]
  /\ UNCHANGED <<now, call>>

NextSweep ==
  \/ AutoCompleteExpired
  \/ \E id \in CandidateIds(db), u \in Users, ok \in BOOLEAN :
       CompleteRepetition(id, u, ok)
  \/ Tick

SpecSweep == Init /\ [][NextSweep]_vars

(***************************************************************************)
(* Read specification: the five query operations of ScheduleService called *)
(* with every user, material and option of the bounds on stores that hold  *)
(* completed, pending and, as the clock moves on, expired entries.         *)
(***************************************************************************)
\* lines 474-512: the rows of the SELECT; ORDER BY scheduled_date,
\* current_stage leaves ties open, the result is kept as the set of rows
get_user_schedule(D, user_id, days_ahead, include_completed, today) ==
  {e \in D.schedule :
     /\ e.user_id = user_id
     /\ e.scheduled_date >= today
     /\ e.scheduled_date <= today + days_ahead
     /\ (~include_completed => ~e.is_completed)}

\* lines 514-531
get_material_schedule(D, material_id) ==
  {e \in D.schedule : e.material_id = material_id}

\* lines 533-596: None for a missing or foreign material; otherwise the
\* dict, one for each row the ordered list may have as its first incomplete
\* one; scalar_one_or_none raises when an entry has more than one result
get_material_schedule_with_history(D, user_id, material_id) ==
  LET m == get_material(D, <<>>, material_id) IN
  IF m = None THEN {[ret |-> "None"]}
  ELSE IF m[1].user_id # user_id THEN {[ret |-> "None"]}
  ELSE
    LET all_schedules == get_material_schedule(D, material_id)
        pending == {e \in all_schedules : ~e.is_completed}
        first == {e \in pending :
                    \A o \in pending :
                      \/ e.scheduled_date < o.scheduled_date
                      \/ /\ e.scheduled_date = o.scheduled_date
                         /\ e.current_stage <= o.current_stage}
        done == {e \in all_schedules : e.is_completed}
        history ==
          {[stage |-> e.current_stage,
            repetition_type |-> e.repetition_type,
            done_at |-> e.completed_at,
            result |-> IF \E r \in DOMAIN D.results :
                            r.schedule_id = e.id /\ r.was_successful
                       THEN "success" ELSE "failed"] : e \in done}
        dict(next) == [ret |-> "dict", current_stage |-> m[1].current_stage,
                       next_due_at |-> next, history |-> history]
    IN  IF \E e \in done : ResultsOf(D, e.id) > 1
        THEN {[ret |-> "MultipleResultsFound"]}
        ELSE IF first = {} THEN {dict(None)}
        ELSE {dict(<<e.scheduled_datetime>>) : e \in first}

InitRead ==
  /\ now = StartTime
  /\ db \in {SeededTwo(k1, 2, k2, now) : k1 \in 0..MaxSeed, k2 \in 0..MaxSeed}
  /\ last = NoCall
  /\ call = [p \in Procs |-> Idle]

\* variant: the query runs the sweep first, as get_users_for_notification does
GetUserSchedule_sweeping(u, days_ahead, include_completed) ==
  LET D == auto_complete_expired_intraday_repetitions(db, now).db IN
  /\ db' = D
  /\ last' = [rows |-> {e.id : e \in get_user_schedule(D, u, days_ahead,
                                        include_completed, now \div 1440)}]
               @@ [NoCall EXCEPT !.op = "get_user_schedule",
                                 !.ret = "list", !.user_id = u]
  /\ UNCHANGED <<now, call>>

GetUserSchedule(u, days_ahead, include_completed) ==
  /\ last' = [rows |-> {e.id : e \in get_user_schedule(db, u, days_ahead,
                                        include_completed, now \div 1440)}]
               @@ [NoCall EXCEPT !.op = "get_user_schedule",
                                 !.ret = "list", !.user_id = u]
  /\ UNCHANGED <<db, now, call>>

GetMaterialSchedule(m) ==
  /\ last' = [rows |-> {e.id : e \in get_material_schedule(db, m)}]
               @@ [NoCall EXCEPT !.op = "get_material_schedule",
                                 !.ret = "list", !.material_id = m]
  /\ UNCHANGED <<db, now, call>>

GetMaterialScheduleWithHistory(u, m) ==
  /\ \E r \in get_material_schedule_with_history(db, u, m) :
       last' = [result |-> r]
                 @@ [NoCall EXCEPT
                       !.op = "get_material_schedule_with_history",
                       !.ret = r.ret, !.user_id = u, !.material_id = m]
  /\ UNCHANGED <<db, now, call>>

NextRead ==
  \/ \E u \in {0} \cup Users, d \in QueryDates(db) : GetDueRepetitions(u, d)
  \/ \E u \in {0} \cup Users : GetOverdueRepetitions(u)
  \/ \E u \in Users, days_ahead \in {0, 7}, include_completed \in BOOLEAN :
       GetUserSchedule(u, days_ahead, include_completed)
  \/ \E m \in 1..Len(db.materials) + 1 : GetMaterialSchedule(m)
  \/ \E u \in Users, m \in 1..Len(db.materials) + 1 :
       GetMaterialScheduleWithHistory(u, m)
  \/ QueryTick

SpecRead == InitRead /\ [][NextRead]_vars

(***************************************************************************)
(* Calculator specification: calculate_next_repetition applied to creation *)
(* instants around midnight, 07:00 and 20:00, naive or carrying an offset, *)
(* to every stage and zone of the bounds, and chained through the monthly  *)
(* phase with each due instant as the next last_success_at.                *)
(***************************************************************************)
\* highest current_stage handed to the calculator
MaxStage == 9
\* last day of the creation instants
MaxCalcDay == 1
\* successive monthly completions of one chain
MaxChain == 3

\* zone offsets in minutes: UTC, Asia/Yekaterinburg, America/New_York (winter)
Zones == {0, default_timezone, -300}

\* times of day: 00:00, 06:59, 07:00, 19:59, 20:00, 20:01, 23:59
CalcMinutes == {0, 419, 420, 1199, 1200, 1201, 1439}

CalcInstants ==
  LET readings == {d * 1440 + m : d \in 0..MaxCalcDay, m \in CalcMinutes} IN
  {Naive(t) : t \in readings}
    \cup {Aware(t, off) : t \in readings, off \in Zones}

InitCalc ==
  /\ now = StartTime
  /\ db = EmptyDb
  /\ last = NoCall
  /\ call = [p \in Procs |-> Idle]

\* the record of one calculator call: its arguments and what it returned
Calculated(created_at, current_stage, tz, last_success_at, chain, prev_due) ==
  LET r == calculate_next_repetition(created_at, current_stage, tz,
                                     last_success_at)
  IN  [created_at |-> created_at, current_stage |-> current_stage,
       tz |-> tz, last_success_at |-> last_success_at,
       next_due_at |-> r.due, next_stage |-> r.stage,
       chain |-> chain, prev_due |-> prev_due]
        @@ [NoCall EXCEPT !.op = "calculate_next_repetition"]

CalculateNext(created_at, current_stage, tz, last_success_at) ==
  /\ last' = Calculated(created_at, current_stage, tz, last_success_at,
                        0, None)
  /\ UNCHANGED <<db, now, call>>

\* the entry of the monthly phase is completed at its due instant: the next
\* call gets the returned stage and that instant as last_success_at
CalculateMonthlyAgain ==
  /\ last.op = "calculate_next_repetition"
  /\ last.current_stage >= 7
  /\ last.chain < MaxChain
  /\ last' = Calculated(last.created_at, last.next_stage, last.tz,
                        <<last.next_due_at>>, last.chain + 1,
                        <<last.next_due_at>>)
  /\ UNCHANGED <<db, now, call>>

\* one calculate_failed_repetition call: its arguments and what it returned
CalculateFailed(failed_at, current_stage, tz) ==
  LET r == calculate_failed_repetition(failed_at, current_stage, tz) IN
  /\ last' = [failed_at |-> failed_at, current_stage |-> current_stage,
              tz |-> tz, next_due_at |-> r.due, new_stage |-> r.stage]
               @@ [NoCall EXCEPT !.op = "calculate_failed_repetition"]
  /\ UNCHANGED <<db, now, call>>

\* timezone names a caller may pass: three names of the tz database and one
\* that no database has
TimezoneNames ==
  {"UTC", "Asia/Yekaterinburg", "America/New_York", "Mars/Olympus"}

\* try ZoneInfo(timezone_name), except pytz.timezone(timezone_name): both
\* look the name up in the tz database; the zone's offset for a name it has,
\* no value where the second lookup raises UnknownTimeZoneError too
timezone(timezone_name) ==
  IF timezone_name = "UTC" THEN <<0>>
  ELSE IF timezone_name = "Asia/Yekaterinburg" THEN <<default_timezone>>
  ELSE IF timezone_name = "America/New_York" THEN <<-300>>
  ELSE None

\* one call of a calculator with a timezone name: the lookup of the name is
\* the first statement of both functions and its exception is not caught
CalculateByName(function, at, current_stage, timezone_name) ==
  LET tz == timezone(timezone_name)
      r  == IF function = "calculate_next_repetition"
            THEN calculate_next_repetition(at, current_stage, tz[1], None)
            ELSE calculate_failed_repetition(at, current_stage, tz[1])
  IN
  /\ last' = [function |-> function, at |-> at,
              current_stage |-> current_stage,
              timezone_name |-> timezone_name,
              result |-> IF tz = None THEN None ELSE <<r>>]
               @@ [NoCall EXCEPT
                     !.op = "timezone_name",
                     !.ret = IF tz = None THEN "UnknownTimeZoneError"
                             ELSE "tuple"]
  /\ UNCHANGED <<db, now, call>>

\* one get_stage_name call
GetStageName(stage) ==
  /\ last' = [stage |-> stage, name |-> get_stage_name(stage)]
               @@ [NoCall EXCEPT !.op = "get_stage_name"]
  /\ UNCHANGED <<db, now, call>>

\* the functions keep no state: a behaviour is one call, and for
\* calculate_next_repetition its monthly chain
NextCalc ==
  \/ /\ last.op = "none"
     /\ \E c \in CalcInstants, s \in 0..MaxStage, tz \in Zones,
           ls \in {None} \cup {<<x>> : x \in CalcInstants} :
          CalculateNext(c, s, tz, ls)
  \/ CalculateMonthlyAgain
  \/ /\ last.op = "none"
     /\ \E f \in CalcInstants, s \in 0..MaxStage, tz \in Zones :
          CalculateFailed(f, s, tz)
  \/ /\ last.op = "none"
     /\ \E s \in 0..MaxStage : GetStageName(s)
  \/ /\ last.op = "none"
     /\ \E function \in {"calculate_next_repetition",
                         "calculate_failed_repetition"},
           at \in CalcInstants, s \in 0..MaxStage, name \in TimezoneNames :
          CalculateByName(function, at, s, name)

SpecCalc == InitCalc /\ [][NextCalc]_vars

(***************************************************************************)
(* Properties                                                              *)
(***************************************************************************)
Pending(D, user_id, material_id) == Cardinality(Incomplete(D, user_id, material_id))

\* the step is one service call (the clock did not merely move on)
CallStep == last'.seq = last.seq + 1

\* the row with this id, as a set
Row(D, id) == {e \in D.schedule : e.id = id}

Max0(n) == IF n > 0 THEN n ELSE 0

\* 07:00 of a day
Morning(day) == day * 1440 + 7 * 60

C2_OneWinner ==
  \A p \in Procs, q \in Procs :
    ( /\ p # q
      /\ call[p].pc = "done" /\ call[q].pc = "done"
      /\ call[p].schedule_id = call[q].schedule_id
      /\ call[p].user_id = call[q].user_id
      /\ call[p].ret = "True" )
    => call[q].ret = "False"

(* C3: after two completion attempts on the same entry have both finished  *)
(* (the entry was pending, so one of them returned True), the material has *)
(* exactly one incomplete entry and the completed entry has exactly one    *)
(* RepetitionResult.                                                       *)
C3_OneFollowUpOneResult ==
  \A p \in Procs, q \in Procs :
    ( /\ p # q
      /\ call[p].pc = "done" /\ call[q].pc = "done"
      /\ call[p].schedule_id = call[q].schedule_id
      /\ call[p].user_id = call[q].user_id
      /\ call[p].ret = "True" )
    => /\ Pending(db, call[p].user_id, call[p].schedule[1].material_id) = 1
       /\ ResultsOf(db, call[p].schedule_id) = 1

(* C4: completion is all or nothing: when the only caller is interrupted   *)
(* between its commits, the store does not show the entry completed with   *)
(* its result written (the follow-up entry and the material stage update   *)
(* being absent).                                                          *)
C4_AllOrNothing ==
  \A p \in Procs :
    ( /\ call[p].pc = "interrupted"
      /\ \A q \in Procs \ {p} : call[q].pc = "idle" )
    => ~ /\ \E e \in Row(db, call[p].schedule_id) : e.is_completed
         /\ ResultsOf(db, call[p].schedule_id) >= 1

(* C5: complete_repetition for an id that has no row, or whose entry is    *)
(* already completed or belongs to another user, returns False and leaves  *)
(* the whole store as it was.                                              *)
C5_NoOpFailure ==
  [][( /\ CallStep
       /\ last'.op = "complete_repetition"
       /\ ~\E e \in Row(db, last'.schedule_id) :
             e.user_id = last'.user_id /\ ~e.is_completed )
     => (last'.ret = "False" /\ db' = db)]_vars

\* a second call on an entry that is already completed has reported failure
C5_Witness ==
  /\ last.op = "complete_repetition" /\ last.ret = "False"
  /\ \E e \in Row(db, last.schedule_id) :
       e.user_id = last.user_id /\ e.is_completed

(* C6: failing an incomplete entry of stage s through complete_repetition  *)
(* at instant t creates the follow-up with stage max(0, s - 1), due 07:00  *)
(* of the day after t, and sets the material's stage to that value.        *)
C6_FailureRollsBackEntryStage ==
  [][\A e \in db.schedule :
       ( /\ CallStep
         /\ last'.op = "complete_repetition"
         /\ last'.schedule_id = e.id /\ last'.user_id = e.user_id
         /\ ~last'.was_successful
         /\ ~e.is_completed )
       => /\ \E f \in Row(db', db.next_id) :
               /\ f.material_id = e.material_id
               /\ ~f.is_completed
               /\ f.current_stage = Max0(e.current_stage - 1)
               /\ f.scheduled_datetime = Morning(now \div 1440 + 1)
          /\ db'.materials[e.material_id].current_stage
               = Max0(e.current_stage - 1)]_vars

\* the due instant the interval table of the design gives for a success at
\* stage s of a material created at reading c, completed at reading t
TableDue(c, s, t) ==
  IF s = 0 THEN c + 20
  ELSE IF s = 1
       THEN IF c < (c \div 1440) * 1440 + 20 * 60
            THEN (c \div 1440) * 1440 + 20 * 60
            ELSE (c \div 1440 + 1) * 1440 + 20 * 60
  ELSE IF s = 2 THEN Morning(c \div 1440 + 1)
  ELSE IF s = 3 THEN Morning(c \div 1440 + 3)
  ELSE IF s = 4 THEN Morning(c \div 1440 + 7)
  ELSE IF s = 5 THEN Morning(c \div 1440 + 14)
  ELSE IF s = 6 THEN Morning(c \div 1440 + 30)
  ELSE Morning(t \div 1440 + 30)

(* C7: a successful complete_repetition of an incomplete entry of stage s  *)
(* marks the entry completed, sets the material's last_success_at to the   *)
(* completion instant and leaves its owner with a single incomplete entry  *)
(* for the material, of stage min(s + 1, 8), due as the interval table     *)
(* says for stage s.                                                       *)
C7_SuccessAdvances ==
  [][\A e \in db.schedule :
       ( /\ CallStep
         /\ last'.op = "complete_repetition"
         /\ last'.schedule_id = e.id /\ last'.user_id = e.user_id
         /\ last'.was_successful
         /\ ~e.is_completed )
       => /\ last'.ret = "True"
          /\ \E d \in Row(db', e.id) :
               d.is_completed /\ d.completed_at = <<now>>
          /\ db'.materials[e.material_id].last_success_at = <<now>>
          /\ \E f \in db'.schedule :
               /\ Incomplete(db', e.user_id, e.material_id) = {f}
               /\ f.id = db.next_id
               /\ f.current_stage
                    = (IF e.current_stage + 1 < 8 THEN e.current_stage + 1 ELSE 8)
               /\ f.scheduled_datetime
                    = TableDue(db.materials[e.material_id].created_at,
                               e.current_stage, now)
               /\ f.scheduled_date = f.scheduled_datetime \div 1440]_vars

\* a stage-3 entry was completed successfully: the follow-up has stage 4 and
\* is due at 07:00 three days after the material's creation date
C7_Witness ==
  /\ last.op = "complete_repetition" /\ last.ret = "True"
  /\ last.was_successful
  /\ \E e \in Row(db, last.schedule_id), f \in db.schedule :
       /\ e.current_stage = 3
       /\ Incomplete(db, e.user_id, e.material_id) = {f}
       /\ f.current_stage = 4
       /\ f.scheduled_datetime
            = Morning(db.materials[e.material_id].created_at \div 1440 + 3)

(* C8: after each create_full_schedule, complete_repetition or mark_failed *)
(* call that took effect, whenever a material has an incomplete schedule   *)
(* entry the material's current_stage equals that entry's stage.           *)
C8_MaterialStageIsEntryStage ==
  [][( /\ CallStep
       /\ last'.op \in {"create_full_schedule", "complete_repetition",
                        "mark_failed"}
       /\ last'.ret \in {"list", "True"} )
     => \A e \in db'.schedule :
          ~e.is_completed
            => db'.materials[e.material_id].current_stage
                 = e.current_stage]_vars

(* C9: the notification cycle that sweeps an expired intraday entry also   *)
(* advances its material: afterwards the owner has an incomplete entry for *)
(* the material at the rolled-back stage, due the next day at 07:00.       *)
C9_SweptEntryAdvances ==
  [][( /\ CallStep
       /\ last'.op = "get_users_for_notification" )
     => \A e \in db.schedule :
          ( /\ ~e.is_completed
            /\ e.repetition_type \in {"immediate", "short_term", "evening"}
            /\ e.scheduled_date < now \div 1440 )
          => \E f \in Incomplete(db', e.user_id, e.material_id) :
               /\ f.scheduled_datetime = Morning(now \div 1440 + 1)
               /\ \E x \in Incomplete(db, e.user_id, e.material_id) :
                    f.current_stage = Max0(x.current_stage - 1)]_vars

(* C10: the sweep run on day T completes every incomplete intraday entry   *)
(* scheduled before T, writes exactly one RepetitionResult with            *)
(* success = false for each, returns their number and creates no entry.    *)
C10_SweepResolvesExpired ==
  [][( /\ CallStep
       /\ last'.op = "auto_complete_expired_intraday_repetitions" )
     => LET stale == {e \in db.schedule :
                        /\ ~e.is_completed
                        /\ e.repetition_type
                             \in {"immediate", "short_term", "evening"}
                        /\ e.scheduled_date < now \div 1440}
        IN  /\ \A e \in stale :
                 /\ \E d \in Row(db', e.id) : d.is_completed
                 /\ ResultsOf(db', e.id) = 1
                 /\ \A r \in DOMAIN db'.results :
                      r.schedule_id = e.id => ~r.was_successful
            /\ last'.count = Cardinality(stale)
            /\ {e.id : e \in db'.schedule} = {e.id : e \in db.schedule}
            /\ db'.next_id = db.next_id]_vars

\* a sweep has just resolved the three entries of the day before
C10_Witness ==
  /\ last.op = "auto_complete_expired_intraday_repetitions"
  /\ last.count = 3
  /\ \A e \in db.schedule : e.is_completed /\ ResultsOf(db, e.id) = 1

(***************************************************************************)
(* Properties of the queries (SpecQuery)                                   *)
(***************************************************************************)
\* the rows a get_due_repetitions call recorded in last returned, in order
DueRows == [i \in DOMAIN last.due |->
              CHOOSE e \in db.schedule : e.id = last.due[i]]

\* the incomplete rows that the date and kind rules select for the recorded
\* call (intraday on the date itself, long-horizon on or before it)
Matching ==
  {e \in db.schedule :
     /\ ~e.is_completed
     /\ \/ /\ e.repetition_type \in {"immediate", "short_term", "evening"}
           /\ e.scheduled_date = last.target_date
        \/ /\ e.repetition_type \in {"day_1", "day_3", "day_7", "day_14",
                                     "day_30", "monthly"}
           /\ e.scheduled_date <= last.target_date
     /\ (last.user_id # 0 => e.user_id = last.user_id)}

\* a comes strictly before b by (scheduled date, stage, creation time)
DueKeyLess(a, b) ==
  \/ a.scheduled_date < b.scheduled_date
  \/ a.scheduled_date = b.scheduled_date /\ a.current_stage < b.current_stage
  \/ /\ a.scheduled_date = b.scheduled_date
     /\ a.current_stage = b.current_stage
     /\ a.created_at < b.created_at

(* C11: the notification cycle of day T completes every intraday entry     *)
(* scheduled before T with a failed result and does not return it; a       *)
(* completed entry stays completed; and no due set ever holds a completed  *)
(* entry or an intraday entry of a date other than the date asked for, so  *)
(* the swept entry is in no due set for any date after its own.            *)
C11_ExpiredNeverDue ==
  /\ [][( /\ CallStep
          /\ last'.op = "get_users_for_notification" )
        => \A e \in db.schedule :
             ( /\ ~e.is_completed
               /\ e.repetition_type \in {"immediate", "short_term", "evening"}
               /\ e.scheduled_date < now \div 1440 )
             => /\ \E d \in Row(db', e.id) : d.is_completed
                /\ ResultsOf(db', e.id) = 1
                /\ \A r \in DOMAIN db'.results :
                     r.schedule_id = e.id => ~r.was_successful
                /\ \A i \in DOMAIN last'.due : last'.due[i] # e.id]_vars
  /\ [][\A e \in db.schedule :
          e.is_completed => \E d \in Row(db', e.id) : d.is_completed]_vars
  /\ [](last.op = "get_due_repetitions"
          => \A i \in DOMAIN last.due :
               /\ ~DueRows[i].is_completed
               /\ DueRows[i].repetition_type
                    \in {"immediate", "short_term", "evening"}
                  => DueRows[i].scheduled_date = last.target_date)

\* an intraday entry was swept on a day after its date, and a later
\* get_due_repetitions for today returned other entries without it
C11_Witness ==
  /\ last.op = "get_due_repetitions"
  /\ last.target_date = now \div 1440
  /\ Len(last.due) >= 1
  /\ \E e \in db.schedule :
       /\ e.repetition_type = "evening"
       /\ e.is_completed
       /\ e.completed_at[1] \div 1440 > e.scheduled_date
       /\ e.scheduled_date < last.target_date
       /\ \E r \in DOMAIN db.results :
            r.schedule_id = e.id /\ ~r.was_successful

(* C12: when no material has more than one incomplete entry, the list      *)
(* get_due_repetitions returns for date D (and owner, when one is given)   *)
(* holds exactly the incomplete entries that are intraday and scheduled on *)
(* D or long-horizon and scheduled on or before D.                         *)
C12_DueSetExact ==
  ( /\ last.op = "get_due_repetitions"
    /\ \A a \in db.schedule, b \in db.schedule :
         (~a.is_completed /\ ~b.is_completed
            /\ a.material_id = b.material_id) => a = b )
  => /\ {last.due[i] : i \in DOMAIN last.due} = {e.id : e \in Matching}
     /\ Len(last.due) = Cardinality(Matching)

\* the due set is one long-horizon entry dated before D, while the other
\* material's pending intraday entry of an earlier date is left out
C12_Witness ==
  /\ last.op = "get_due_repetitions"
  /\ last.user_id = 0
  /\ \A a \in db.schedule, b \in db.schedule :
       (~a.is_completed /\ ~b.is_completed
          /\ a.material_id = b.material_id) => a = b
  /\ Len(last.due) = 1
  /\ DueRows[1].repetition_type = "day_1"
  /\ DueRows[1].scheduled_date < last.target_date
  /\ \E e \in db.schedule :
       /\ ~e.is_completed /\ e.repetition_type = "short_term"
       /\ e.scheduled_date < last.target_date

(* C13: the list get_due_repetitions returns has at most one entry per     *)
(* material, the entry kept for a material has the least key (scheduled    *)
(* date, stage, creation time) among the selected entries of the material, *)
(* the list is sorted by that key, and when the selected entries belong to *)
(* distinct materials all of them are returned.                            *)
C13_OnePerMaterialSorted ==
  last.op = "get_due_repetitions"
  => /\ \A i \in DOMAIN last.due, j \in DOMAIN last.due :
          i < j => /\ DueRows[i].material_id # DueRows[j].material_id
                   /\ ~DueKeyLess(DueRows[j], DueRows[i])
     /\ \A i \in DOMAIN last.due :
          /\ DueRows[i] \in Matching
          /\ \A e \in Matching :
               e.material_id = DueRows[i].material_id
                 => ~DueKeyLess(e, DueRows[i])
     /\ \A m \in {e.material_id : e \in Matching} :
          \E i \in DOMAIN last.due : DueRows[i].material_id = m
     /\ (\A a \in Matching, b \in Matching :
           a.material_id = b.material_id => a = b)
          => {last.due[i] : i \in DOMAIN last.due} = {e.id : e \in Matching}

\* two materials with three selected entries each: one entry of each returned
C13_Witness ==
  /\ last.op = "get_due_repetitions"
  /\ Len(last.due) = 2
  /\ \A i \in DOMAIN last.due :
       /\ DueRows[i].current_stage = 0
       /\ Cardinality({e \in Matching :
                         e.material_id = DueRows[i].material_id}) = 3

(* C14: get_overdue_repetitions on day T returns exactly the incomplete    *)
(* long-horizon entries scheduled on or before T - 1 (of the given owner   *)
(* when one is passed); an intraday entry is never in the result.          *)
C14_OverdueExact ==
  last.op = "get_overdue_repetitions"
  => /\ last.overdue
          = {e.id : e \in {x \in db.schedule :
               /\ ~x.is_completed
               /\ x.repetition_type \in {"day_1", "day_3", "day_7", "day_14",
                                         "day_30", "monthly"}
               /\ x.scheduled_date + 1 <= last.today
               /\ (last.user_id # 0 => x.user_id = last.user_id)}}
     /\ \A e \in db.schedule :
          e.repetition_type \in {"immediate", "short_term", "evening"}
            => e.id \notin last.overdue

\* an overdue day_1 entry is returned while an unswept intraday entry of an
\* earlier day is pending and left out, and a long-horizon entry of today too
C14_Witness ==
  /\ last.op = "get_overdue_repetitions"
  /\ \E e \in db.schedule : e.id \in last.overdue /\ e.repetition_type = "day_1"
  /\ \E e \in db.schedule :
       /\ ~e.is_completed /\ e.repetition_type = "short_term"
       /\ e.scheduled_date < last.today
       /\ e.id \notin last.overdue

(***************************************************************************)
(* Properties of initial schedule creation (Spec)                          *)
(***************************************************************************)
\* the entries a call inserted: the rows whose id the store had not given out
Inserted == {e \in db'.schedule : e.id >= db.next_id}

\* the 20:00 slot for a reading c: the same day's when c is before it
EveningSlot(c) ==
  IF c % 1440 < 20 * 60
  THEN (c \div 1440) * 1440 + 20 * 60
  ELSE (c \div 1440 + 1) * 1440 + 20 * 60

C16_ResubmissionReplacesPending ==
  [][( /\ CallStep
       /\ last'.op = "create_full_schedule"
       /\ last'.ret = "list" )
     => /\ Incomplete(db', last'.user_id, last'.material_id) = Inserted
        /\ Cardinality(Inserted) = 3
        /\ {e \in db'.schedule : e.is_completed}
             = {e \in db.schedule : e.is_completed}
        /\ db'.results = db.results]_vars

\* a material with a completed entry, its result, and a pending follow-up was
\* created again: the follow-up is gone and the three new entries are pending
C16_Witness ==
  /\ last.op = "create_full_schedule" /\ last.ret = "list"
  /\ Pending(db, last.user_id, last.material_id) = 3
  /\ Row(db, db.next_id - 4) = {}
  /\ \E e \in db.schedule :
       /\ e.material_id = last.material_id /\ e.user_id = last.user_id
       /\ e.is_completed
       /\ e.current_stage = 3
       /\ ResultsOf(db, e.id) = 1

(***************************************************************************)
(* Properties of calculate_next_repetition (SpecCalc)                      *)
(***************************************************************************)
Calc == last.op = "calculate_next_repetition"

\* the reading of an instant on the wall clock of zone tz: a naive instant is
\* taken as that zone's local time, an instant with an offset is converted
LocalReading(dt, tz) == IF dt.aware THEN dt.t - dt.off + tz ELSE dt.t

(* C17: calculate_next_repetition returns current_stage + 1 as the next    *)
(* stage for every current_stage in 0..7 and 8 for every current_stage     *)
(* from 8 on, whatever the instants and the zone.                          *)
C17_NextStage ==
  Calc => last.next_stage
            = (IF last.current_stage <= 7 THEN last.current_stage + 1 ELSE 8)

\* a stage-8 call, made with the due instant of the call before it as
\* last_success_at, stays at stage 8
C17_Witness ==
  /\ Calc
  /\ last.chain = 1
  /\ last.current_stage = 8 /\ last.next_stage = 8
  /\ last.prev_due # None

(* C18: for current_stage 0 the due instant is created_at + 20 minutes;    *)
(* for current_stage 2, 3, 4, 5, 6 it is 07:00 in the zone on created_at's *)
(* local date plus 1, 3, 7, 14, 30 days, whatever created_at's time of day *)
(* and last_success_at are.                                                *)
C18_DayIntervals ==
  Calc =>
    LET c == LocalReading(last.created_at, last.tz)
        days == [s \in 2..6 |-> IF s = 2 THEN 1 ELSE IF s = 3 THEN 3
                                ELSE IF s = 4 THEN 7 ELSE IF s = 5 THEN 14
                                ELSE 30]
    IN  /\ last.current_stage = 0
             => last.next_due_at = [t |-> c + 20, aware |-> TRUE,
                                    off |-> last.tz]
        /\ last.current_stage \in 2..6
             => last.next_due_at
                  = [t |-> Morning(c \div 1440 + days[last.current_stage]),
                     aware |-> TRUE, off |-> last.tz]

\* a stage-3 call for a creation at 23:59 with a last_success_at of another
\* day: due three days after the creation date at 07:00
C18_Witness ==
  /\ Calc
  /\ last.current_stage = 3
  /\ ~last.created_at.aware
  /\ last.created_at.t % 1440 = 1439
  /\ last.last_success_at # None
  /\ last.last_success_at[1].t \div 1440 # last.created_at.t \div 1440
  /\ last.next_due_at.t = Morning(last.created_at.t \div 1440 + 3)

(* C19: for current_stage 1 the due instant is 20:00 in the zone on        *)
(* created_at's local date when created_at is before 20:00, and 20:00 of   *)
(* the next day when it is at or after 20:00; it is later than created_at  *)
(* and at most 24 hours later.                                             *)
C19_EveningRollover ==
  (Calc /\ last.current_stage = 1) =>
    LET c == LocalReading(last.created_at, last.tz)
        due == last.next_due_at.t
    IN  /\ last.next_due_at.aware /\ last.next_due_at.off = last.tz
        /\ c % 1440 < 20 * 60 => due = (c \div 1440) * 1440 + 20 * 60
        /\ c % 1440 >= 20 * 60 => due = (c \div 1440 + 1) * 1440 + 20 * 60
        /\ due > c
        /\ due <= c + 1440

\* a creation at exactly 20:00 rolls to 20:00 of the next day
C19_Witness ==
  /\ Calc
  /\ last.current_stage = 1
  /\ LocalReading(last.created_at, last.tz) % 1440 = 20 * 60
  /\ last.next_due_at.t = LocalReading(last.created_at, last.tz) + 1440

(* C20: for current_stage 7 and above the result is stage 8, due 07:00 on  *)
(* last_success_at's local date + 30 days (created_at's date + 30 days     *)
(* without a last_success_at); along a chain of monthly completions, each  *)
(* made at the previous due instant, consecutive due dates are exactly 30  *)
(* days apart.                                                             *)
C20_MonthlyPhase ==
  (Calc /\ last.current_stage >= 7) =>
    LET base == IF last.last_success_at # None
                THEN LocalReading(last.last_success_at[1], last.tz)
                ELSE LocalReading(last.created_at, last.tz)
    IN  /\ last.next_stage = 8
        /\ last.next_due_at = [t |-> Morning(base \div 1440 + 30),
                               aware |-> TRUE, off |-> last.tz]
        /\ last.chain > 0
             => last.next_due_at.t \div 1440
                  = last.prev_due[1].t \div 1440 + 30

\* the third monthly completion in a row that began at stage 7
C20_Witness ==
  /\ Calc
  /\ last.chain = MaxChain
  /\ last.current_stage = 8
  /\ last.next_due_at.t - last.prev_due[1].t = 30 * 1440

(***************************************************************************)
(* Properties of calculate_failed_repetition and get_stage_name (SpecCalc) *)
(***************************************************************************)
(* C21: calculate_failed_repetition returns the stage max(0, s - 1) for    *)
(* every current stage s >= 0, and as due instant 07:00 in the zone on the *)
(* day after failed_at's local date; the due instant is the same for every *)
(* s.                                                                      *)
C21_FailedRollback ==
  last.op = "calculate_failed_repetition"
    => /\ last.new_stage = Max0(last.current_stage - 1)
       /\ last.next_due_at
            = [t |-> Morning(LocalReading(last.failed_at, last.tz) \div 1440
                               + 1),
               aware |-> TRUE, off |-> last.tz]
       /\ \A s \in 0..MaxStage :
            calculate_failed_repetition(last.failed_at, s, last.tz).due
              = last.next_due_at

\* a failure at stage 0 reported at 23:59 UTC, which is already the next day
\* in the zone: the stage stays 0 and the due instant is 07:00 of the zone's
\* day after that one
C21_Witness ==
  /\ last.op = "calculate_failed_repetition"
  /\ last.current_stage = 0 /\ last.new_stage = 0
  /\ last.failed_at = Aware(1439, 0)
  /\ last.tz = default_timezone
  /\ last.next_due_at.t = Morning(2)

\* the name of each stage of the table
StageNames ==
  <<"immediate", "short_term", "evening", "day_1", "day_3", "day_7",
    "day_14", "day_30">>

(* C22: get_stage_name maps the stages 0..7 one-to-one onto immediate,     *)
(* short_term, evening, day_1, day_3, day_7, day_14, day_30, and every     *)
(* stage from 8 on to monthly.                                             *)
C22_StageNames ==
  last.op = "get_stage_name"
    => /\ last.stage \in 0..7
            => /\ last.name = StageNames[last.stage + 1]
               /\ \A s \in 0..7 :
                    get_stage_name(s) = last.name => s = last.stage
       /\ last.stage >= 8 => last.name = "monthly"

\* stage 7 is still day_30, the last name before the monthly phase
C22_Witness ==
  /\ last.op = "get_stage_name"
  /\ last.stage = 7
  /\ last.name = "day_30"

(***************************************************************************)
(* Properties of the stored entries and results (Spec)                     *)
(***************************************************************************)
(* C23: in every reachable state every schedule entry, whether created     *)
(* with the material, after a success or after a failure, has              *)
(* repetition_type = get_stage_name(current_stage).                        *)
C23_TypeIsStageName ==
  \A e \in db.schedule : e.repetition_type = get_stage_name(e.current_stage)

\* after a mark_failed call the pending entry is a day_1 entry of the
\* rolled-back stage 3, next to completed entries of the earlier stages
C23_Witness ==
  /\ last.op = "mark_failed" /\ last.ret = "True"
  /\ \E e \in db.schedule :
       /\ ~e.is_completed
       /\ e.id = db.next_id - 1
       /\ e.current_stage = 3 /\ e.repetition_type = "day_1"
  /\ \E e \in db.schedule : e.is_completed /\ e.repetition_type = "evening"

\* the RepetitionResult rows of one schedule entry
ResultRows(D, schedule_id) ==
  {r \in DOMAIN D.results : r.schedule_id = schedule_id}

\* entries that are incomplete before the step and completed after it
NewlyCompleted ==
  {e \in db.schedule :
     /\ ~e.is_completed
     /\ \E f \in db'.schedule : f.id = e.id /\ f.is_completed}

(* C24: with the operations running one at a time (create, complete with   *)
(* success or failure, mark_failed, the sweep, in any order) every         *)
(* completed entry has exactly one RepetitionResult and every incomplete   *)
(* entry has none; the result's success flag is the outcome the caller     *)
(* reported, and false for an entry the sweep closed; no RepetitionResult  *)
(* is ever changed or removed.                                             *)
C24_OneResultPerCompletion ==
  /\ [](\A e \in db.schedule :
          ResultsOf(db, e.id) = (IF e.is_completed THEN 1 ELSE 0))
  /\ [][\A r \in DOMAIN db.results :
          r \in DOMAIN db'.results /\ db'.results[r] >= db.results[r]]_vars
  /\ [][\A e \in NewlyCompleted :
          /\ CallStep
          /\ \A r \in ResultRows(db', e.id) :
               r.was_successful
                 = (IF last'.op = "complete_repetition"
                    THEN last'.was_successful ELSE FALSE)]_vars

\* a completion reported as failed: the completed entry has its one result,
\* flagged unsuccessful, next to the result of an earlier success, and the
\* follow-up entry has none
C24_Witness ==
  /\ last.op = "complete_repetition" /\ last.ret = "True"
  /\ ~last.was_successful
  /\ ResultsOf(db, last.schedule_id) = 1
  /\ \A r \in ResultRows(db, last.schedule_id) : ~r.was_successful
  /\ \E r \in DOMAIN db.results :
       r.schedule_id # last.schedule_id /\ r.was_successful
  /\ \E e \in db.schedule : ~e.is_completed /\ ResultsOf(db, e.id) = 0

(* C25: an entry goes from incomplete to completed at most once, and only *)
(* through complete_repetition (for the entry it names) or the sweep; a    *)
(* completed entry is never set back, changed or deleted; an entry is      *)
(* deleted only while incomplete, in a step that creates a newer entry for *)
(* the same material.                                                      *)
C25_CompletedOnceAndKept ==
  [][\A e \in db.schedule :
       /\ e.is_completed => e \in db'.schedule
       /\ e \in NewlyCompleted
            => /\ CallStep
               /\ last'.op \in {"complete_repetition",
                                "auto_complete_expired_intraday_repetitions",
                                "get_users_for_notification"}
               /\ last'.op = "complete_repetition"
                    => e.id = last'.schedule_id
       /\ Row(db', e.id) = {}
            => /\ ~e.is_completed
               /\ \E f \in db'.schedule :
                    f.id >= db.next_id /\ f.material_id = e.material_id]_vars

\* a resubmission deleted a pending entry (its id has no row any more) and
\* created newer entries of the material, and the entries completed before
\* that are still there
C25_Witness ==
  /\ last.op = "create_full_schedule" /\ last.ret = "list"
  /\ \E e \in db.schedule :
       /\ ~e.is_completed
       /\ \E d \in db.schedule :
            /\ d.is_completed /\ d.material_id = e.material_id
            /\ d.id < e.id
            /\ \E id \in (d.id + 1)..(e.id - 1) : Row(db, id) = {}

(* C26: a mark_failed call for a material that does not exist, or that    *)
(* belongs to a user other than the user id the caller passed, returns     *)
(* False and leaves the store as it was.                                   *)
C26_MarkFailedForeignNoOp ==
  [][(/\ CallStep
      /\ last'.op = "mark_failed"
      /\ \/ last'.material_id \notin DOMAIN db.materials
         \/ db.materials[last'.material_id].user_id # last'.user_id)
       => last'.ret = "False" /\ db' = db]_vars

(* C27: a create_full_schedule call with the id of a material that does  *)
(* not exist reports it as an empty or boolean result, raises nothing and  *)
(* creates no entry.                                                       *)
C27_MissingMaterialReported ==
  [][(/\ CallStep
      /\ last'.op = "create_full_schedule"
      /\ last'.material_id \notin DOMAIN db.materials)
       => last'.ret # "ValueError" /\ db'.schedule = db.schedule]_vars

(***************************************************************************)
(* Properties of the calculators called with a timezone name (SpecCalc)    *)
(***************************************************************************)
(* C28: calculate_next_repetition and calculate_failed_repetition called   *)
(* with a timezone name that cannot be resolved raise nothing and return,  *)
(* for every stage, what they compute in the configured default timezone.  *)
C28_UnknownZoneFallsBack ==
  (last.op = "timezone_name" /\ timezone(last.timezone_name) = None)
    => /\ last.ret = "tuple"
       /\ last.result
            = <<IF last.function = "calculate_next_repetition"
                THEN calculate_next_repetition(last.at, last.current_stage,
                                               default_timezone, None)
                ELSE calculate_failed_repetition(last.at, last.current_stage,
                                                 default_timezone)>>

(***************************************************************************)
(* Properties of the query operations (SpecRead)                           *)
(***************************************************************************)
QueryOps ==
  {"get_due_repetitions", "get_overdue_repetitions", "get_user_schedule",
   "get_material_schedule", "get_material_schedule_with_history"}

(* C29: get_due_repetitions, get_overdue_repetitions, get_user_schedule,   *)
(* get_material_schedule and get_material_schedule_with_history leave      *)
(* every schedule entry, RepetitionResult, material stage and statistics   *)
(* record as it was, whatever their arguments and results.                 *)
C29_QueriesReadOnly ==
  [][(last' # last /\ last'.op \in QueryOps)
       => /\ db'.schedule = db.schedule
          /\ db'.results = db.results
          /\ db'.materials = db.materials
          /\ db'.stats = db.stats]_vars

\* a get_user_schedule call on day 1 that returns nothing while the store
\* still holds a pending intraday entry of day 0 and completed entries with
\* their results
C29_Witness ==
  /\ last.op = "get_user_schedule"
  /\ last.rows = {}
  /\ now \div 1440 = 1
  /\ \E e \in db.schedule :
       /\ e.user_id = last.user_id
       /\ ~e.is_completed
       /\ e.scheduled_date = 0
       /\ e.repetition_type \in IntradayTypes
  /\ \E e \in db.schedule : e.is_completed /\ ResultsOf(db, e.id) = 1

(***************************************************************************)
(* Properties of calls on different materials (SpecPar)                    *)
(***************************************************************************)
\* the entries of one material, the ones created since the start without
\* their surrogate id
EntriesOf(D, material_id) ==
  {IF e.id >= last.db0.next_id THEN [e EXCEPT !.id = 0] ELSE e :
     e \in {x \in D.schedule : x.material_id = material_id}}

ResultsFor(D, material_id) ==
  {<<r, D.results[r]>> :
     r \in {x \in DOMAIN D.results : x.material_id = material_id}}

\* the store the call of caller p leaves when it runs alone from the start
Alone(p) ==
  complete_repetition(last.db0, call[p].schedule_id, call[p].user_id,
                      call[p].was_successful, now)

(* C30: two complete_repetition calls on entries of two different          *)
(* materials, of one owner or of two, with their steps interleaved in any  *)
(* order, both return True, and each material ends with the completed      *)
(* entry, the result and the follow-up entry that its call leaves when it  *)
(* runs alone; no step of a call deletes, completes or changes an entry of *)
(* the other material, or that material's stage.                           *)
C30_ParallelMaterials ==
  /\ []((\A p \in Procs : call[p].pc = "done")
          => \A p \in Procs :
               /\ call[p].ret = "True"
               /\ Alone(p).ret = "True"
               /\ EntriesOf(db, p) = EntriesOf(Alone(p).db, p)
               /\ ResultsFor(db, p) = ResultsFor(Alone(p).db, p)
               /\ db.materials[p] = Alone(p).db.materials[p])
  /\ [][\A p \in Procs :
          call'[p] # call[p]
            => \A m \in DOMAIN db.materials :
                 m # p => /\ {e \in db'.schedule : e.material_id = m}
                               = {e \in db.schedule : e.material_id = m}
                          /\ db'.materials[m] = db.materials[m]]_vars

(***************************************************************************)
(* Properties of the stored stages (Spec)                                  *)
(***************************************************************************)
(* C31: in every reachable state the current_stage of every schedule entry *)
(* and of every material lies in 0..8; no sequence of successes and        *)
(* failures takes either below 0 or above 8.                               *)
C31_StagesInRange ==
  /\ \A e \in db.schedule : e.current_stage \in 0..8
  /\ \A m \in DOMAIN db.materials : db.materials[m].current_stage \in 0..8

(***************************************************************************)
(* Properties of the localization of created_at (SpecCalc)                 *)
(***************************************************************************)
\* days added to the local creation date for current_stage 2..6
DayOffset == <<0, 1, 3, 7, 14, 30>>

(* C32: calculate_next_repetition reads a created_at without offset as     *)
(* local time of the given zone and converts a created_at with an offset   *)
(* into the zone before any date arithmetic: for current_stage 1..6 the    *)
(* due instant is computed from the date and clock time the instant has in *)
(* the zone, also when that date differs from the date created_at shows in *)
(* its own offset, and equals the result for the naive local reading.      *)
C32_CreatedAtInZone ==
  (Calc /\ last.current_stage \in 1..6) =>
    LET c == IF last.created_at.aware
             THEN last.created_at.t - last.created_at.off + last.tz
             ELSE last.created_at.t
        day == c \div 1440
    IN  /\ last.next_due_at.aware /\ last.next_due_at.off = last.tz
        /\ last.current_stage = 1
             => last.next_due_at.t
                  = (IF c % 1440 < 20 * 60 THEN day ELSE day + 1) * 1440
                      + 20 * 60
        /\ last.current_stage \in 2..6
             => last.next_due_at.t
                  = Morning(day + DayOffset[last.current_stage])
        /\ last.next_due_at
             = calculate_next_repetition(Naive(c), last.current_stage,
                                         last.tz, last.last_success_at).due

\* a created_at of 23:59 UTC on day 0, which is 04:59 of day 1 in the zone:
\* the stage-2 due instant is 07:00 of day 2, one day after the zone's date
C32_Witness ==
  /\ Calc
  /\ last.current_stage = 2
  /\ last.created_at = Aware(1439, 0)
  /\ last.tz = default_timezone
  /\ last.next_due_at.t = Morning(2)

(***************************************************************************)
(* Properties of a chain of successes (SpecChain)                          *)
(***************************************************************************)
(* C33: from a freshly created material, completing successfully each time *)
(* the entry get_due_repetitions returns for it (the stage-0 entry first), *)
(* the pending entry after the n-th completion has stage n for n = 1..8    *)
(* and stage 8 after every later one: the monthly stage is reached after   *)
(* exactly eight completions, the pending stage never decreases, and there *)
(* is exactly one incomplete entry after each completion.                  *)
C33_SuccessChain ==
  last.seq >= 1
    => /\ last.ret = "True"
       /\ \A e \in Row(db, last.schedule_id) :
            e.is_completed
              /\ e.current_stage = (IF last.seq <= 8 THEN last.seq - 1 ELSE 8)
       /\ Pending(db, 1, 1) = 1
       /\ \A e \in Incomplete(db, 1, 1) :
            /\ e.current_stage = (IF last.seq <= 8 THEN last.seq ELSE 8)
            /\ e.repetition_type = "monthly" <=> last.seq >= 8

(***************************************************************************)
(* Properties of the statistics (Spec)                                     *)
(***************************************************************************)
\* the counters of one user and day, all 0 while the day has no row
StatsOf(D, user_id, today) ==
  IF <<user_id, today>> \in DOMAIN D.stats THEN D.stats[<<user_id, today>>]
  ELSE [total_materials_added |-> 0, successful_repetitions |-> 0,
        failed_repetitions |-> 0]

(* C34: one failed completion of one entry through complete_repetition     *)
(* raises the owner's failed_repetitions of the day by exactly 1, one      *)
(* successful completion raises successful_repetitions by exactly 1, and   *)
(* the other counter stays: no completion is counted twice.                *)
C34_CountedOnce ==
  [][(/\ CallStep
      /\ last'.op = "complete_repetition"
      /\ last'.ret = "True")
       => LET before == StatsOf(db, last'.user_id, now \div 1440)
              after == StatsOf(db', last'.user_id, now \div 1440)
              ok == IF last'.was_successful THEN 1 ELSE 0
          IN  /\ after.successful_repetitions
                   = before.successful_repetitions + ok
              /\ after.failed_repetitions
                   = before.failed_repetitions + 1 - ok]_vars

(***************************************************************************)
(* Properties of the follow-up dates (SpecChain)                           *)
(***************************************************************************)
(* C35: when an entry of stage 2 or more is completed successfully on the  *)
(* calendar date D, however late, the follow-up entry is scheduled on a    *)
(* date after D, and get_due_repetitions(D) does not return the material   *)
(* again right after the completion.                                       *)
C35_FollowUpAfterToday ==
  [][(/\ CallStep
      /\ last'.op = "complete_repetition"
      /\ last'.ret = "True"
      /\ last'.was_successful
      /\ \E e \in Row(db, last'.schedule_id) : e.current_stage >= 2)
       => /\ \A f \in db'.schedule :
               f.id >= db.next_id => f.scheduled_date > now \div 1440
          /\ \A due \in get_due_repetitions(db', last'.user_id,
                                            now \div 1440) :
               \A i \in 1..Len(due) :
                 \A e \in Row(db, last'.schedule_id) :
                   due[i].material_id # e.material_id]_vars

(***************************************************************************)
(* Properties of the failure follow-up (Spec)                              *)
(***************************************************************************)
\* days after the scheduled date for which the due query is examined
DaysLater == 2

(* C36: the follow-up entry created by a failure, whatever the rolled-back *)
(* stage, is returned by get_due_repetitions(D) for its scheduled date and *)
(* for every later date D while it is incomplete, and the sweep of such a  *)
(* day does not select it.                                                 *)
C36_FailureFollowUpStaysDue ==
  (/\ last.op = "mark_failed" /\ last.ret = "True"
   /\ db.materials[last.material_id].user_id = last.user_id)
    => \A e \in Row(db, db.next_id - 1) :
         \A D \in e.scheduled_date..(e.scheduled_date + DaysLater) :
           /\ \A due \in get_due_repetitions(db, e.user_id, D) :
                \E i \in 1..Len(due) : due[i].id = e.id
           /\ e \notin expired_repetitions(db, D)

(***************************************************************************)
(* Properties of the reminder response (SpecReminder)                      *)
(***************************************************************************)
\* the learner's incomplete entries of one kind scheduled today
RemindedEntries(D, user_id, kind, today) ==
  {e \in D.schedule : /\ e.user_id = user_id
                      /\ ~e.is_completed
                      /\ e.repetition_type = kind
                      /\ e.scheduled_date = today}

(* C37: when the learner answers a reminder of kind short_term or evening  *)
(* on the day an incomplete entry of that kind of their material is        *)
(* scheduled, the handler completes that entry with the reported outcome:  *)
(* afterwards the entry is completed and has a RepetitionResult.           *)
C37_ReminderCompletesEntry ==
  [][(/\ CallStep
      /\ last'.op = "_handle_reminder_response"
      /\ RemindedEntries(db, last'.user_id, last'.reminder_type,
                         now \div 1440) # {})
       => \E e \in RemindedEntries(db, last'.user_id, last'.reminder_type,
                                   now \div 1440) :
            /\ \E f \in db'.schedule : f.id = e.id /\ f.is_completed
            /\ \E r \in ResultRows(db', e.id) :
                 r.was_successful = last'.was_successful]_vars

(***************************************************************************)
(* Properties of the sweep (SpecSweep)                                     *)
(***************************************************************************)
SweepOp == "auto_complete_expired_intraday_repetitions"

\* the entries no run of the sweep on date today may touch
OutOfSweep(D, today) ==
  {e \in D.schedule : \/ e.repetition_type \notin IntradayTypes
                      \/ e.scheduled_date >= today
                      \/ e.is_completed}

(* C38: a run of the sweep that directly follows another run on the same   *)
(* day returns 0 and changes no entry, no RepetitionResult and no          *)
(* statistics; every run leaves unchanged every long-horizon entry, every  *)
(* intraday entry scheduled today or later and every completed entry.      *)
C38_SweepIdempotent ==
  [][(CallStep /\ last'.op = SweepOp)
       => /\ OutOfSweep(db, last'.today) \subseteq db'.schedule
          /\ (last.op = SweepOp /\ last.today = last'.today)
               => (last'.count = 0 /\ db' = db)]_vars

\* a second run on the day of a first run that closed an expired entry
C38_Witness ==
  /\ last.op = SweepOp
  /\ last.count = 0
  /\ last.previous.op = SweepOp
  /\ last.previous.today = last.today
  /\ last.previous.count > 0
  /\ OutOfSweep(db, last.today) # {}

====
